---- MODULE Spec2Model ----
(***************************************************************************)
(* A model of pcdswidgets' BaseSymbolIcon (icons/base.py) and of the       *)
(* PneumaticValve and FastShutter symbols (symbols/valves.py).             *)
(*                                                                         *)
(* A symbol widget owns one icon (valves.py:100, valves.py:284).  The      *)
(* icon's fields and the symbol's fields are disjoint and no handler of    *)
(* the source touches both, so a behaviour drives the handlers of one of   *)
(* the two objects ("driven"); the other one stays as constructed.         *)
(*                                                                         *)
(* Real numbers (pen widths, painter coordinates) are fixed-point: a       *)
(* value v is held as the integer 4 * v, which makes w / 2.0 and           *)
(* _pen_width / 2.0 exact for the widths the model draws (steps of 0.5).   *)
(***************************************************************************)
EXTENDS Integers, Sequences, FiniteSets, TLC

VARIABLES
    symbol,             \* class of the symbol widget: PneumaticValve or FastShutter
    driven,             \* the object whose handlers this behaviour calls
    _brush,             \* BaseSymbolIcon._brush
    _pen_style,         \* BaseSymbolIcon._pen_style
    _pen_color,         \* BaseSymbolIcon._pen_color
    _pen_width,         \* BaseSymbolIcon._pen_width (fixed-point)
    _pen,               \* BaseSymbolIcon._pen, the QPen: [style, color, width, cosmetic]
    _rotation,          \* BaseSymbolIcon._rotation (degrees)
    painter,            \* calls made on the QPainter local to the last paintEvent
    update_calls,       \* number of self.update() calls made by the last handler
    raised,             \* exception the last handler ended with, or "none"
    super_kwargs,       \* keyword arguments the symbol's __init__ passed to super().__init__
    _controls_location, \* symbol._controls_location
    open_close_btn,     \* the PyDMEnumButton: [orientation, minimumSize, channel]
    _channels_prefix,   \* symbol._channels_prefix
    _interlocked,       \* symbol._interlocked
    controls_frame,     \* the controls QFrame: [enabled]
    assemble_calls,     \* number of assemble_layout() calls made by the last handler
    last                \* the last handler called: [op, arg]

icon_fields == <<_brush, _pen_style, _pen_color, _pen_width, _pen, _rotation>>

symbol_fields == <<_controls_location, open_close_btn, _channels_prefix,
                   _interlocked, controls_frame>>

vars == <<symbol, driven, _brush, _pen_style, _pen_color, _pen_width, _pen,
          _rotation, painter, update_calls, raised, super_kwargs,
          _controls_location, open_close_btn, _channels_prefix, _interlocked,
          controls_frame, assemble_calls, last>>

----------------------------------------------------------------------------
(* Bounds and input domains *)

\* largest pen width drawn, in whole units
MaxWidth == 2

\* rotations are drawn from -90 .. 90 * MaxTurns degrees, in quarter turns
MaxTurns == 1

\* largest extra extent, in pixels, of the paint event's rectangle
MaxRect == 1

Fixed(n) == 4 * n

\* widths from -1.0 to MaxWidth in steps of 0.5, fixed-point
WidthValues == {2 * k : k \in -2 .. 2 * MaxWidth}

IsIntegral(v) == v % 4 = 0

\* a width argument is a Python int or a Python float
WidthArgs ==
    {a \in [value : WidthValues, type : {"int", "float"}] :
        a.type = "int" => IsIntegral(a.value)}

Angles == {90 * k : k \in -1 .. MaxTurns}

Brushes == {"QBrush(QColor(0,255,0),SolidPattern)", "QBrush(QColor(255,0,0),SolidPattern)"}

PenStyles == {"SolidLine", "DotLine"}

Colors == {"QColor(0,0,0)", "QColor(0,128,0)"}

Rects ==
    {[x |-> x, y |-> y, w |-> 32 + d, h |-> 20 + d] :
        x \in {0, 3}, y \in {0}, d \in 0 .. MaxRect}

----------------------------------------------------------------------------
(* BaseSymbolIcon *)

\* what every handler but paintEvent leaves behind: the call, its repaint
\* requests and its exception; the painter of an earlier paintEvent is gone
Returned(op, arg, updates, exc) ==
    /\ last' = [op |-> op, arg |-> arg]
    /\ update_calls' = updates
    /\ raised' = exc
    /\ painter' = <<>>
    /\ assemble_calls' = 0
    /\ UNCHANGED <<symbol, driven, super_kwargs, symbol_fields>>

IconInit ==
    /\ _brush = "QBrush(QColor(0,255,0),SolidPattern)"
    /\ _rotation = 0
    /\ _pen_style = "SolidLine"
    /\ _pen_width = Fixed(1)
    /\ _pen_color = "QColor(0,0,0)"
    /\ _pen = [style |-> "SolidLine", cosmetic |-> TRUE,
               width |-> Fixed(1), color |-> "QColor(0,0,0)"]

brush == _brush

penStyle == _pen_style

penColor == _pen_color

penWidth == _pen_width

rotation == _rotation

\* mutant of set_brush: the repaint request is missing
set_brush_no_update(new_brush) ==
    /\ driven = "icon"
    /\ _brush' = new_brush
    /\ UNCHANGED <<_pen_style, _pen_color, _pen_width, _pen, _rotation>>
    /\ Returned("brush", new_brush, 0, "none")

set_brush(new_brush) ==
    /\ driven = "icon"
    /\ \/ /\ new_brush # _brush
          /\ _brush' = new_brush
          /\ UNCHANGED <<_pen_style, _pen_color, _pen_width, _pen, _rotation>>
          /\ Returned("brush", new_brush, 1, "none")
       \/ /\ new_brush = _brush
          /\ UNCHANGED icon_fields
          /\ Returned("brush", new_brush, 0, "none")

\* mutant of set_penStyle: the comparison with the current style is missing
set_penStyle_no_compare(new_style) ==
    /\ driven = "icon"
    /\ _pen_style' = new_style
    /\ _pen' = [_pen EXCEPT !.style = new_style]
    /\ UNCHANGED <<_brush, _pen_color, _pen_width, _rotation>>
    /\ Returned("penStyle", new_style, 1, "none")

set_penStyle(new_style) ==
    /\ driven = "icon"
    /\ \/ /\ new_style # _pen_style
          /\ _pen_style' = new_style
          /\ _pen' = [_pen EXCEPT !.style = new_style]
          /\ UNCHANGED <<_brush, _pen_color, _pen_width, _rotation>>
          /\ Returned("penStyle", new_style, 1, "none")
       \/ /\ new_style = _pen_style
          /\ UNCHANGED icon_fields
          /\ Returned("penStyle", new_style, 0, "none")

\* mutant of set_penColor: the colour reaches the pen but not the property
set_penColor_pen_only(new_color) ==
    /\ driven = "icon"
    /\ _pen' = [_pen EXCEPT !.color = new_color]
    /\ UNCHANGED <<_brush, _pen_style, _pen_color, _pen_width, _rotation>>
    /\ Returned("penColor", new_color, 1, "none")

set_penColor(new_color) ==
    /\ driven = "icon"
    /\ \/ /\ new_color # _pen_color
          /\ _pen_color' = new_color
          /\ _pen' = [_pen EXCEPT !.color = new_color]
          /\ UNCHANGED <<_brush, _pen_style, _pen_width, _rotation>>
          /\ Returned("penColor", new_color, 1, "none")
       \/ /\ new_color = _pen_color
          /\ UNCHANGED icon_fields
          /\ Returned("penColor", new_color, 0, "none")

\* int(x) of a non-negative fixed-point x, as a fixed-point value
Truncate(v) == Fixed(v \div 4)

\* QPen.setWidth(int) called with a Python number.  An int is stored as it
\* is.  A float is not an int: depending on the binding and the interpreter
\* the call converts it with int() or raises TypeError and leaves the pen.
QPen_setWidth(pen, width) ==
    IF width.type = "int"
    THEN {[raised |-> "none", pen |-> [pen EXCEPT !.width = width.value]]}
    ELSE {[raised |-> "none", pen |-> [pen EXCEPT !.width = Truncate(width.value)]],
          [raised |-> "TypeError", pen |-> pen]}

\* the outcome of the penWidth setter once new_width is found to differ
penWidth_assign(new_width, out) ==
    /\ _pen_width' = new_width.value
    /\ _pen' = out.pen
    /\ UNCHANGED <<_brush, _pen_style, _pen_color, _rotation>>
    /\ Returned("penWidth", new_width, IF out.raised = "none" THEN 1 ELSE 0, out.raised)

\* mutant of set_penWidth: the test for a negative width is missing
set_penWidth_no_guard(new_width) ==
    /\ driven = "icon"
    /\ \/ /\ new_width.value # _pen_width
          /\ \E out \in QPen_setWidth(_pen, new_width) : penWidth_assign(new_width, out)
       \/ /\ new_width.value = _pen_width
          /\ UNCHANGED icon_fields
          /\ Returned("penWidth", new_width, 0, "none")

\* mutant of set_penWidth: the test for a negative width is inverted
set_penWidth_inverted_guard(new_width) ==
    /\ driven = "icon"
    /\ \/ /\ new_width.value > 0
          /\ UNCHANGED icon_fields
          /\ Returned("penWidth", new_width, 0, "none")
       \/ /\ ~(new_width.value > 0)
          /\ new_width.value # _pen_width
          /\ \E out \in QPen_setWidth(_pen, new_width) : penWidth_assign(new_width, out)
       \/ /\ ~(new_width.value > 0)
          /\ new_width.value = _pen_width
          /\ UNCHANGED icon_fields
          /\ Returned("penWidth", new_width, 0, "none")

set_penWidth(new_width) ==
    /\ driven = "icon"
    /\ \/ /\ new_width.value < 0
          /\ UNCHANGED icon_fields
          /\ Returned("penWidth", new_width, 0, "none")
       \/ /\ ~(new_width.value < 0)
          /\ new_width.value # _pen_width
          /\ \E out \in QPen_setWidth(_pen, new_width) : penWidth_assign(new_width, out)
       \/ /\ ~(new_width.value < 0)
          /\ new_width.value = _pen_width
          /\ UNCHANGED icon_fields
          /\ Returned("penWidth", new_width, 0, "none")

set_rotation(angle) ==
    /\ driven = "icon"
    /\ _rotation' = angle
    /\ UNCHANGED <<_brush, _pen_style, _pen_color, _pen_width, _pen>>
    /\ Returned("rotation", angle, 1, "none")

\* mutant of paintEvent_calls: the pen is set after the icon is drawn
paintEvent_calls_late_pen(event) ==
    <<  <<"setClipping", TRUE>>,
        <<"drawPrimitive", "PE_Widget">>,
        <<"setRenderHint", "Antialiasing">>,
        <<"translate", Fixed(event.w) \div 2, Fixed(event.h) \div 2>>,
        <<"rotate", _rotation>>,
        <<"translate", -(Fixed(event.w) \div 2), -(Fixed(event.h) \div 2)>>,
        <<"translate", _pen_width \div 2, _pen_width \div 2>>,
        <<"scale", Fixed(event.w) - _pen_width, Fixed(event.h) - _pen_width>>,
        <<"translate", Fixed(event.x), Fixed(event.y)>>,
        <<"setBrush", _brush>>,
        <<"draw_icon">>,
        <<"setPen", _pen>>  >>

\* the calls paintEvent makes on its painter, in order, ending with draw_icon
paintEvent_calls(event) ==
    <<  <<"setClipping", TRUE>>,
        <<"drawPrimitive", "PE_Widget">>,
        <<"setRenderHint", "Antialiasing">>,
        <<"translate", Fixed(event.w) \div 2, Fixed(event.h) \div 2>>,
        <<"rotate", _rotation>>,
        <<"translate", -(Fixed(event.w) \div 2), -(Fixed(event.h) \div 2)>>,
        <<"translate", _pen_width \div 2, _pen_width \div 2>>,
        <<"scale", Fixed(event.w) - _pen_width, Fixed(event.h) - _pen_width>>,
        <<"translate", Fixed(event.x), Fixed(event.y)>>,
        <<"setBrush", _brush>>,
        <<"setPen", _pen>>,
        <<"draw_icon">>  >>

paintEvent(event) ==
    /\ driven = "icon"
    /\ painter' = paintEvent_calls(event)
    /\ last' = [op |-> "paintEvent", arg |-> event]
    /\ update_calls' = 0
    /\ raised' = "none"
    /\ assemble_calls' = 0
    /\ UNCHANGED icon_fields
    /\ UNCHANGED <<symbol, driven, super_kwargs, symbol_fields>>

----------------------------------------------------------------------------
(* PneumaticValve and FastShutter *)

Symbols == {"PneumaticValve", "FastShutter"}

\* a Python value that is None or a string: None is <<>>, the string s is <<s>>
None == <<>>

Str(s) == <<s>>

\* Python truth of a None-or-string value: neither None nor ""
Truthy(p) == p # None /\ p[1] # ""

\* the placements of the ContentLocation enumeration
ContentLocation == {"Hidden", "Top", "Bottom", "Left", "Right"}

Prefixes == {None, Str(""), Str("VGC:01"), Str("SHT:02")}

\* values an interlock channel delivers
InterlockValues == {0, 1}

\* the class attributes _interlock_suffix, _error_suffix, _open_state_suffix
\* and _close_state_suffix of each symbol class
class_suffixes(cls) ==
    IF cls = "PneumaticValve"
    THEN [_interlock_suffix |-> ":OPN_OK", _error_suffix |-> ":STATE",
          _open_state_suffix |-> ":OPN_DI", _close_state_suffix |-> ":CLS_DI"]
    ELSE [_interlock_suffix |-> ":OPN_OK", _error_suffix |-> ":ERROR",
          _open_state_suffix |-> ":OPN_DI", _close_state_suffix |-> ":CLS_DI"]

\* the keyword arguments __init__ hands to super().__init__
init_super_kwargs(cls) ==
    [interlock_suffix |-> class_suffixes(cls)._interlock_suffix,
     error_suffix |-> class_suffixes(cls)._error_suffix,
     open_suffix |-> class_suffixes(cls)._open_state_suffix,
     close_suffix |-> class_suffixes(cls)._close_state_suffix]

controlsLocation == _controls_location

\* the button as assemble_layout leaves it when controlsLocation is location
assemble_layout(btn, location) ==
    IF location \in {"Top", "Bottom"}
    THEN [btn EXCEPT !.orientation = "Horizontal", !.minimumSize = <<100, 40>>]
    ELSE [btn EXCEPT !.orientation = "Vertical", !.minimumSize = <<100, 80>>]

\* the fields the base classes' __init__ sets before the symbol's own
\* __init__ body runs (every placement is allowed as the initial one)
PCDSSymbolBase_init ==
    /\ _controls_location \in ContentLocation
    /\ _channels_prefix = None
    /\ _interlocked = 0
    /\ controls_frame = [enabled |-> TRUE]

SymbolInit ==
    /\ symbol \in Symbols
    /\ super_kwargs = init_super_kwargs(symbol)
    /\ PCDSSymbolBase_init
    /\ open_close_btn =
           assemble_layout([orientation |-> "Vertical", minimumSize |-> <<0, 0>>,
                            channel |-> None], controlsLocation)
    /\ assemble_calls = 1

\* what a handler of the symbol leaves behind
SymbolReturned(op, arg, assembles) ==
    /\ last' = [op |-> op, arg |-> arg]
    /\ assemble_calls' = assembles
    /\ update_calls' = 0
    /\ raised' = "none"
    /\ painter' = <<>>
    /\ UNCHANGED <<icon_fields, symbol, driven, super_kwargs>>

\* mutant of set_controlsLocation: the layout is not assembled again
set_controlsLocation_no_assemble(location) ==
    /\ driven = "symbol"
    /\ _controls_location' = location
    /\ UNCHANGED <<open_close_btn, _channels_prefix, _interlocked, controls_frame>>
    /\ SymbolReturned("controlsLocation", location, 0)

set_controlsLocation(location) ==
    /\ driven = "symbol"
    /\ \/ /\ location # _controls_location
          /\ _controls_location' = location
          /\ open_close_btn' = assemble_layout(open_close_btn, location)
          /\ UNCHANGED <<_channels_prefix, _interlocked, controls_frame>>
          /\ SymbolReturned("controlsLocation", location, 1)
       \/ /\ location = _controls_location
          /\ UNCHANGED symbol_fields
          /\ SymbolReturned("controlsLocation", location, 0)

\* the channels prefix is given a new value (the channelsPrefix property of
\* the base class)
set_channelsPrefix(prefix) ==
    /\ driven = "symbol"
    /\ _channels_prefix' = prefix
    /\ UNCHANGED <<_controls_location, open_close_btn, _interlocked, controls_frame>>
    /\ SymbolReturned("channelsPrefix", prefix, 0)

\* mutant of button_channel: the prefix is left out of the address
button_channel_no_prefix(prefix) == Str(":OPN_SW")

\* "{}{}".format(self._channels_prefix, ":OPN_SW")
button_channel(prefix) == Str(prefix[1] \o ":OPN_SW")

create_channels ==
    /\ driven = "symbol"
    /\ \/ /\ Truthy(_channels_prefix)
          /\ open_close_btn' =
                 [open_close_btn EXCEPT !.channel = button_channel(_channels_prefix)]
       \/ /\ ~Truthy(_channels_prefix)
          /\ UNCHANGED open_close_btn
    /\ UNCHANGED <<_controls_location, _channels_prefix, _interlocked, controls_frame>>
    /\ SymbolReturned("create_channels", _channels_prefix, 0)

\* mutant of destroy_channels: the button's channel is not cleared
destroy_channels_no_clear ==
    /\ driven = "symbol"
    /\ UNCHANGED symbol_fields
    /\ SymbolReturned("destroy_channels", _channels_prefix, 0)

destroy_channels ==
    /\ driven = "symbol"
    /\ open_close_btn' = [open_close_btn EXCEPT !.channel = None]
    /\ UNCHANGED <<_controls_location, _channels_prefix, _interlocked, controls_frame>>
    /\ SymbolReturned("destroy_channels", _channels_prefix, 0)

\* InterlockMixin.interlock_value_changed: the new value of _interlocked,
\* 1 meaning that the widget is interlocked
InterlockMixin_interlock_value_changed(value) == value

\* Python truth of an int
IsTrue(value) == value # 0

\* mutant of interlock_value_changed: the negation is missing
interlock_value_changed_no_not(value) ==
    /\ driven = "symbol"
    /\ _interlocked' = InterlockMixin_interlock_value_changed(value)
    /\ controls_frame' = [controls_frame EXCEPT !.enabled = IsTrue(_interlocked')]
    /\ UNCHANGED <<_controls_location, open_close_btn, _channels_prefix>>
    /\ SymbolReturned("interlock_value_changed", value, 0)

interlock_value_changed(value) ==
    /\ driven = "symbol"
    /\ _interlocked' = InterlockMixin_interlock_value_changed(value)
    /\ controls_frame' = [controls_frame EXCEPT !.enabled = ~IsTrue(_interlocked')]
    /\ UNCHANGED <<_controls_location, open_close_btn, _channels_prefix>>
    /\ SymbolReturned("interlock_value_changed", value, 0)

----------------------------------------------------------------------------
(* The specification *)

Init ==
    /\ driven \in {"icon", "symbol"}
    /\ IconInit
    /\ SymbolInit
    /\ painter = <<>>
    /\ update_calls = 0
    /\ raised = "none"
    /\ last = [op |-> "__init__", arg |-> None]

Next ==
    \/ \E new_brush \in Brushes : set_brush(new_brush)
    \/ \E new_style \in PenStyles : set_penStyle(new_style)
    \/ \E new_color \in Colors : set_penColor(new_color)
    \/ \E new_width \in WidthArgs : set_penWidth(new_width)
    \/ \E angle \in Angles : set_rotation(angle)
    \/ \E event \in Rects : paintEvent(event)
    \/ \E location \in ContentLocation : set_controlsLocation(location)
    \/ \E prefix \in Prefixes : set_channelsPrefix(prefix)
    \/ create_channels
    \/ destroy_channels
    \/ \E value \in InterlockValues : interlock_value_changed(value)

Spec == Init /\ [][Next]_vars

----------------------------------------------------------------------------
(* The claims *)

IconSetters == {"brush", "penStyle", "penColor", "penWidth", "rotation"}

\* C1: assigning a negative value to penWidth returns without raising and
\* leaves penWidth, the pen object, brush, penStyle, penColor and rotation
\* as they were, and requests no repaint.
C1_NegativeWidthRejected ==
    [][(last'.op = "penWidth" /\ last'.arg.value < 0) =>
          /\ raised' = "none"
          /\ UNCHANGED <<penWidth, _pen, brush, penStyle, penColor, rotation>>
          /\ update_calls' = 0]_vars

\* a negative width was assigned to an icon whose width, brush and
\* rotation are no longer the constructed ones
C1_Witness ==
    /\ last.op = "penWidth"
    /\ last.arg.value < 0
    /\ penWidth = Fixed(2)
    /\ brush # "QBrush(QColor(0,255,0),SolidPattern)"
    /\ rotation = 90

\* C2: in every reachable state, whatever brush, penStyle, penColor,
\* penWidth and rotation assignments and paint events came before (negative
\* widths included), the penWidth property is non-negative.
C2_PenWidthNonNegative == penWidth >= 0

\* a negative width was assigned while the width was zero
C2_Witness ==
    /\ last.op = "penWidth"
    /\ last.arg.value < 0
    /\ penWidth = 0

\* C3: after assigning v to brush, penStyle, penColor, rotation, penWidth
\* (v non-negative) or controlsLocation, reading the same property gives v.
C3_RoundTrip ==
    /\ last.op = "brush" => brush = last.arg
    /\ last.op = "penStyle" => penStyle = last.arg
    /\ last.op = "penColor" => penColor = last.arg
    /\ last.op = "rotation" => rotation = last.arg
    /\ (last.op = "penWidth" /\ last.arg.value >= 0) => penWidth = last.arg.value
    /\ last.op = "controlsLocation" => controlsLocation = last.arg

\* the width 1.5 was assigned and is read back
C3_Witness ==
    /\ last.op = "penWidth"
    /\ last.arg.value = Fixed(1) + 2
    /\ penWidth = Fixed(1) + 2

C5_InterlockDisablesControls ==
    last.op = "interlock_value_changed" =>
        /\ controls_frame.enabled = ~IsTrue(_interlocked)
        /\ last.arg = 1 => (IsTrue(_interlocked) /\ ~controls_frame.enabled)
        /\ last.arg = 0 => (~IsTrue(_interlocked) /\ controls_frame.enabled)

\* the interlock was asserted and the controls frame is disabled
C5_Witness ==
    /\ last.op = "interlock_value_changed"
    /\ last.arg = 1
    /\ ~controls_frame.enabled

\* C6: a PneumaticValve is constructed with the suffixes ":OPN_OK",
\* ":STATE", ":OPN_DI" and ":CLS_DI", and on either symbol create_channels
\* with a non-empty prefix P leaves the button's channel P + ":OPN_SW".
C6_ChannelSuffixes ==
    /\ symbol = "PneumaticValve" =>
           super_kwargs = [interlock_suffix |-> ":OPN_OK", error_suffix |-> ":STATE",
                           open_suffix |-> ":OPN_DI", close_suffix |-> ":CLS_DI"]
    /\ (last.op = "create_channels" /\ Truthy(last.arg)) =>
           /\ open_close_btn.channel # None
           /\ open_close_btn.channel[1] = last.arg[1] \o ":OPN_SW"
    /\ (last.op = "create_channels" /\ last.arg = Str("VGC:01")) =>
           open_close_btn.channel = Str("VGC:01:OPN_SW")

\* create_channels ran on a FastShutter with the prefix "SHT:02"
C6_Witness ==
    /\ symbol = "FastShutter"
    /\ last.op = "create_channels"
    /\ open_close_btn.channel = Str("SHT:02:OPN_SW")

\* C7: after construction and after any controlsLocation assignments the
\* button is Horizontal with minimum size 100x40 exactly when
\* controlsLocation is Top or Bottom, and Vertical with 100x80 otherwise.
C7_ButtonFollowsLocation ==
    IF controlsLocation \in {"Top", "Bottom"}
    THEN /\ open_close_btn.orientation = "Horizontal"
         /\ open_close_btn.minimumSize = <<100, 40>>
    ELSE /\ open_close_btn.orientation = "Vertical"
         /\ open_close_btn.minimumSize = <<100, 80>>

\* the controls were moved to the left and the button stands vertical
C7_Witness ==
    /\ last.op = "controlsLocation"
    /\ controlsLocation = "Left"
    /\ assemble_calls = 1
    /\ open_close_btn.orientation = "Vertical"

IsTransformOrDraw(call) ==
    call[1] \in {"translate", "rotate", "scale", "setBrush", "setPen", "draw_icon"}

\* C8: in each paintEvent the painter is translated to the centre, rotated
\* by the rotation, translated back, translated by penWidth/2, scaled by
\* (w - penWidth, h - penWidth), translated by the rect's origin and given
\* the brush and the pen, all before draw_icon, which is called once; and
\* paintEvent leaves brush, penStyle, penColor, penWidth and rotation alone.
C8_PaintBeforeDraw ==
    [][last'.op = "paintEvent" =>
          LET e == last'.arg
          IN  /\ UNCHANGED <<brush, penStyle, penColor, penWidth, rotation>>
              /\ SelectSeq(painter', IsTransformOrDraw) =
                     << <<"translate", Fixed(e.w) \div 2, Fixed(e.h) \div 2>>,
                        <<"rotate", rotation>>,
                        <<"translate", -(Fixed(e.w) \div 2), -(Fixed(e.h) \div 2)>>,
                        <<"translate", penWidth \div 2, penWidth \div 2>>,
                        <<"scale", Fixed(e.w) - penWidth, Fixed(e.h) - penWidth>>,
                        <<"translate", Fixed(e.x), Fixed(e.y)>>,
                        <<"setBrush", brush>>,
                        <<"setPen", _pen>>,
                        <<"draw_icon">> >>
              /\ painter'[Len(painter')] = <<"draw_icon">>]_vars

\* a rotated icon with a pen of width 1.5 was painted in a rect off the origin
C8_Witness ==
    /\ last.op = "paintEvent"
    /\ last.arg.x = 3
    /\ rotation = 90
    /\ penWidth = Fixed(1) + 2
    /\ Len(painter) > 0

\* C9: after construction and after any penStyle, penColor and penWidth
\* assignments the QPen's style, colour and width equal the penStyle,
\* penColor and penWidth properties, for every accepted width, non-integer
\* ones included.
C9_PenInSync ==
    /\ _pen.style = penStyle
    /\ _pen.color = penColor
    /\ _pen.width = penWidth

\* C10: assigning to brush, penStyle, penColor or penWidth the current
\* value changes no field of the icon and requests no repaint; assigning
\* controlsLocation its current value does not call assemble_layout and
\* leaves the button's orientation and minimum size; and every setter
\* changes only its own property (and its attribute of the pen).
C10_SameValueNoOp ==
    [][/\ (\/ last'.op = "brush" /\ last'.arg = brush
           \/ last'.op = "penStyle" /\ last'.arg = penStyle
           \/ last'.op = "penColor" /\ last'.arg = penColor
           \/ last'.op = "penWidth" /\ last'.arg.value = penWidth)
          => (UNCHANGED icon_fields /\ update_calls' = 0)
       /\ (last'.op = "controlsLocation" /\ last'.arg = controlsLocation)
          => (assemble_calls' = 0 /\ UNCHANGED symbol_fields)
       /\ last'.op = "brush" =>
              UNCHANGED <<_pen_style, _pen_color, _pen_width, _pen, _rotation>>
       /\ last'.op = "penStyle" =>
              /\ UNCHANGED <<_brush, _pen_color, _pen_width, _rotation>>
              /\ _pen' = [_pen EXCEPT !.style = _pen'.style]
       /\ last'.op = "penColor" =>
              /\ UNCHANGED <<_brush, _pen_style, _pen_width, _rotation>>
              /\ _pen' = [_pen EXCEPT !.color = _pen'.color]
       /\ last'.op = "penWidth" =>
              /\ UNCHANGED <<_brush, _pen_style, _pen_color, _rotation>>
              /\ _pen' = [_pen EXCEPT !.width = _pen'.width]
       /\ last'.op = "rotation" =>
              UNCHANGED <<_brush, _pen_style, _pen_color, _pen_width, _pen>>
       /\ last'.op = "controlsLocation" =>
              /\ UNCHANGED <<icon_fields, _channels_prefix, _interlocked, controls_frame>>
              /\ open_close_btn'.channel = open_close_btn.channel]_vars

\* the style DotLine was assigned to an icon whose style was DotLine already
C10_Witness ==
    /\ last.op = "penStyle"
    /\ last.arg = "DotLine"
    /\ penStyle = "DotLine"
    /\ update_calls = 0

\* C11: over any create_channels and destroy_channels calls, with the
\* prefix changing in between, destroy_channels leaves the button's channel
\* None, create_channels with an empty prefix leaves it unchanged, and so
\* the channel is None at construction and becomes or stays non-None only
\* by a create_channels with a non-empty prefix or by a step that is not a
\* destroy_channels from a state where it was non-None already.
C11_ChannelLifecycle ==
    /\ open_close_btn.channel = None
    /\ [][/\ last'.op = "destroy_channels" => open_close_btn'.channel = None
          /\ (last'.op = "create_channels" /\ ~Truthy(_channels_prefix))
                 => open_close_btn'.channel = open_close_btn.channel
          /\ open_close_btn'.channel # None =>
                 \/ last'.op = "create_channels" /\ Truthy(_channels_prefix)
                 \/ last'.op # "destroy_channels" /\ open_close_btn.channel # None]_vars

\* the channel set for "VGC:01" outlives a create_channels that ran after
\* the prefix was emptied
C11_Witness ==
    /\ last.op = "create_channels"
    /\ last.arg = Str("")
    /\ open_close_btn.channel = Str("VGC:01:OPN_SW")
====
